---- MODULE Spec2Model ----
(***************************************************************************)
(* Model of the catalog application of book_library: the five record       *)
(* types of catalog/models.py (Genre, Language, Author, Book,              *)
(* BookInstance), their foreign keys and deletion policies, the derived    *)
(* accessors (display_genre, is_overdue, __str__) and the default          *)
(* orderings, driven through the add / change / delete views that          *)
(* catalog/admin.py registers.                                             *)
(*                                                                         *)
(* Tables are sets of rows (records).  Integer primary keys are handed out *)
(* by per-table counters, BookInstance keys are drawn by uuid4 from a      *)
(* small key space.  NULL is 0; real ids, keys and dates start at 1.       *)
(***************************************************************************)
EXTENDS Integers, Sequences, FiniteSets, TLC

VARIABLES
    genres,          \* table of Genre rows
    authors,         \* table of Author rows
    books,           \* table of Book rows
    bookinstances,   \* table of BookInstance rows
    users,           \* table of user accounts (django.contrib.auth)
    book_genre,      \* rows of the Book.genre relation, in storage order
    book_language,   \* rows of the Book.language relation
    next_id,         \* the next integer key of each table with an AutoField
    today,           \* date.today()
    result           \* what the last accessor or listing returned: [op, id, value]

vars == <<genres, authors, books, bookinstances, users, book_genre,
          book_language, next_id, today, result>>

(* ------------------------------ bounds --------------------------------- *)
MaxAuthor == 2      \* author rows ever created
MaxBook == 2        \* book rows ever created
MaxUser == 1        \* user accounts ever created
MaxUUID == 3        \* size of the key space uuid4 draws from
MaxCopy == 2        \* keys uuid4 draws from in the catalog runs
MaxDate == 3        \* days on the calendar
MaxGenre == 4       \* genre rows
MaxLink == 4        \* rows of the book-genre relation per run
MaxName == 2        \* length of a last name

NULL == 0
NOT_PROVIDED == "NOT_PROVIDED"
EMPTY_VALUES == {""}

Ids(table) == {r.id : r \in table}
Row(table, i) == CHOOSE r \in table : r.id = i

\* Language rows; the model keeps this table fixed.
languages == {[id |-> 1, name |-> "ru"], [id |-> 2, name |-> "en"]}

(* --------------------------- field validation -------------------------- *)
\* BookInstance.LOAN_STATUS
LOAN_STATUS == <<
    <<"m", "maintenance">>,
    <<"o", "on_loan">>,
    <<"a", "available">>,
    <<"r", "reserved">> >>

StatusCodes == {LOAN_STATUS[i][1] : i \in DOMAIN LOAN_STATUS}

status_max_length == 1
status_blank == TRUE
status_default == "m"

\* A validator that forgets the choices.
status_validate_any(value) == Len(value) <= status_max_length

\* A CharField with choices: a value outside empty_values must be one of the
\* choices; an empty value is accepted exactly when blank is allowed; the
\* value is at most max_length long.
status_validate(value) ==
    /\ value \notin EMPTY_VALUES => value \in StatusCodes
    /\ value \in EMPTY_VALUES => status_blank
    /\ Len(value) <= status_max_length

\* The value a field gets when the form or the constructor gives none.
status_get_default(value) ==
    IF value = NOT_PROVIDED THEN status_default ELSE value

\* A ForeignKey declared null=True and not blank: the form requires a value,
\* and the value must be the key of a row of the target table.
fk_required_validate(value, target) == value # NULL /\ value \in Ids(target)

\* A ForeignKey declared null=True, blank=True: empty is accepted.
fk_optional_validate(value, target) == value = NULL \/ value \in Ids(target)

\* A key that is not checked against the table.
pk_validate_unchecked(value, table) == TRUE

\* primary_key=True: no row of the table has the key yet.
pk_validate_unique(value, table) == value \notin Ids(table)

(* ------------------------------ on_delete ------------------------------ *)
\* models.SET_NULL: every row of `table` whose `field` refers to `i` keeps
\* all its other fields and gets NULL in `field`.
SET_NULL(table, field, i) ==
    {IF r[field] = i THEN [r EXCEPT ![field] = NULL] ELSE r : r \in table}

\* The rows of an auto-created many-to-many relation go with the row their
\* `field` refers to (the relation's foreign keys cascade).
M2M_CASCADE(rel, field, i) == SelectSeq(rel, LAMBDA l : l[field] # i)

(* -------------------------- many-to-many set --------------------------- *)
RECURSIVE Links(_, _)
\* The relation rows that attach the genres of the sequence gs to book b.
Links(b, gs) ==
    IF gs = <<>> THEN <<>>
    ELSE <<[book |-> b, genre |-> Head(gs)]>> \o Links(b, Tail(gs))

Range(seq) == {seq[k] : k \in DOMAIN seq}
Distinct(seq) == Cardinality(Range(seq)) = Len(seq)

\* Sequences without repetition over the set S, of length lo..hi.
Arrangements(S, lo, hi) ==
    {q \in UNION {[1..n -> S] : n \in lo..hi} : Distinct(q)}

\* ManyToManyField declared without blank=True: the form requires at least
\* one row of the target table, and each chosen key must exist.
m2m_required_validate(keys, target) == keys # {} /\ keys \subseteq Ids(target)

(* ------------------------------- requests ------------------------------ *)
None == [op |-> "none", id |-> NULL, value |-> NULL]
NoResult == result' = None

\* admin.site.register(Genre): delete view
GenreDelete(g) ==
    /\ g \in Ids(genres)
    /\ genres' = genres \ {Row(genres, g)}
    /\ book_genre' = M2M_CASCADE(book_genre, "genre", g)
    /\ NoResult
    /\ UNCHANGED <<authors, books, bookinstances, users, book_language,
                   next_id, today>>

\* AuthorAdmin: add view
AuthorAdd(first_name, last_name) ==
    /\ next_id.author <= MaxAuthor
    /\ authors' = authors \cup
          {[id |-> next_id.author, first_name |-> first_name,
            last_name |-> last_name, date_of_birth |-> NULL,
            date_of_death |-> NULL]}
    /\ next_id' = [next_id EXCEPT !.author = @ + 1]
    /\ NoResult
    /\ UNCHANGED <<genres, books, bookinstances, users, book_genre,
                   book_language, today>>

\* AuthorAdmin: change view
AuthorChange(a, first_name, last_name) ==
    /\ a \in Ids(authors)
    /\ authors' = (authors \ {Row(authors, a)}) \cup
          {[Row(authors, a) EXCEPT !.first_name = first_name,
                                   !.last_name = last_name]}
    /\ NoResult
    /\ UNCHANGED <<genres, books, bookinstances, users, book_genre,
                   book_language, next_id, today>>

\* models.CASCADE: the rows whose `field` refers to `i` go with it.
CASCADE(table, field, i) == {r \in table : r[field] # i}

\* models.DO_NOTHING: the rows are left as they are.
DO_NOTHING(table, field, i) == table

Book_author_cascade(table, a) == CASCADE(table, "author", a)

\* Book.author = ForeignKey('Author', on_delete=models.SET_NULL, null=True)
Book_author_on_delete(table, a) == SET_NULL(table, "author", a)

\* AuthorAdmin: delete view
AuthorDelete(a) ==
    /\ a \in Ids(authors)
    /\ books' = Book_author_on_delete(books, a)
    /\ authors' = authors \ {Row(authors, a)}
    /\ NoResult
    /\ UNCHANGED <<genres, bookinstances, users, book_genre, book_language,
                   next_id, today>>

\* BookAdmin: add view (the row, then its many-to-many rows)
BookAdd(title, author, gs, ls) ==
    /\ next_id.book <= MaxBook
    /\ fk_required_validate(author, authors)
    /\ m2m_required_validate(Range(gs), genres)
    /\ m2m_required_validate(ls, languages)
    /\ Len(book_genre) + Len(gs) <= MaxLink
    /\ books' = books \cup
          {[id |-> next_id.book, title |-> title, author |-> author,
            summary |-> "summary", isbn |-> "9780000000000"]}
    /\ book_genre' = book_genre \o Links(next_id.book, gs)
    /\ book_language' = book_language \cup
          {[book |-> next_id.book, language |-> l] : l \in ls}
    /\ next_id' = [next_id EXCEPT !.book = @ + 1]
    /\ NoResult
    /\ UNCHANGED <<genres, authors, bookinstances, users, today>>

\* BookAdmin: change view
BookChange(b, title, author) ==
    /\ b \in Ids(books)
    /\ fk_required_validate(author, authors)
    /\ books' = (books \ {Row(books, b)}) \cup
          {[Row(books, b) EXCEPT !.title = title, !.author = author]}
    /\ NoResult
    /\ UNCHANGED <<genres, authors, bookinstances, users, book_genre,
                   book_language, next_id, today>>

BookInstance_book_cascade(table, b) == CASCADE(table, "book", b)

\* BookInstance.book = ForeignKey('Book', on_delete=models.SET_NULL, null=True)
BookInstance_book_on_delete(table, b) == SET_NULL(table, "book", b)

\* BookAdmin: delete view
BookDelete(b) ==
    /\ b \in Ids(books)
    /\ bookinstances' = BookInstance_book_on_delete(bookinstances, b)
    /\ book_genre' = M2M_CASCADE(book_genre, "book", b)
    /\ book_language' = {l \in book_language : l.book # b}
    /\ books' = books \ {Row(books, b)}
    /\ NoResult
    /\ UNCHANGED <<genres, authors, users, next_id, today>>

\* django.contrib.auth: a user account is created
UserAdd ==
    /\ next_id.user <= MaxUser
    /\ users' = users \cup {[id |-> next_id.user]}
    /\ next_id' = [next_id EXCEPT !.user = @ + 1]
    /\ NoResult
    /\ UNCHANGED <<genres, authors, books, bookinstances, book_genre,
                   book_language, today>>

BookInstance_borrower_do_nothing(table, u) == DO_NOTHING(table, "borrower", u)

\* BookInstance.borrower = ForeignKey(User, on_delete=models.SET_NULL, ...)
BookInstance_borrower_on_delete(table, u) == SET_NULL(table, "borrower", u)

\* django.contrib.auth: a user account is deleted
UserDelete(u) ==
    /\ u \in Ids(users)
    /\ bookinstances' = BookInstance_borrower_on_delete(bookinstances, u)
    /\ users' = users \ {Row(users, u)}
    /\ NoResult
    /\ UNCHANGED <<genres, authors, books, book_genre, book_language,
                   next_id, today>>

\* BookInstance.id = UUIDField(primary_key=True, default=uuid.uuid4): the
\* key given, or else the one uuid4 draws.
id_get_default(value, uuid4) == IF value = NULL THEN uuid4 ELSE value

\* BookInstanceAdmin / BooksInstanceInline: add view.  `id` and `status` are
\* the values given (NULL, NOT_PROVIDED: none given); uuid4 is the draw.
BookInstanceAdd(id, uuid4, book, imprint, due_back, status, borrower) ==
    /\ pk_validate_unique(id_get_default(id, uuid4), bookinstances)
    /\ fk_required_validate(book, books)
    /\ status_validate(status_get_default(status))
    /\ fk_optional_validate(borrower, users)
    /\ bookinstances' = bookinstances \cup
          {[id |-> id_get_default(id, uuid4), book |-> book,
            imprint |-> imprint, due_back |-> due_back,
            status |-> status_get_default(status), borrower |-> borrower]}
    /\ NoResult
    /\ UNCHANGED <<genres, authors, books, users, book_genre, book_language,
                   next_id, today>>

\* BookInstanceAdmin / BooksInstanceInline: change view
BookInstanceChange(i, book, imprint, due_back, status, borrower) ==
    /\ i \in Ids(bookinstances)
    /\ fk_required_validate(book, books)
    /\ status_validate(status)
    /\ fk_optional_validate(borrower, users)
    /\ bookinstances' =
          {IF r.id = i
           THEN [id |-> i, book |-> book, imprint |-> imprint,
                 due_back |-> due_back, status |-> status,
                 borrower |-> borrower]
           ELSE r : r \in bookinstances}
    /\ NoResult
    /\ UNCHANGED <<genres, authors, books, users, book_genre, book_language,
                   next_id, today>>

\* BookInstanceAdmin: delete view
BookInstanceDelete(i) ==
    /\ i \in Ids(bookinstances)
    /\ bookinstances' = {r \in bookinstances : r.id # i}
    /\ NoResult
    /\ UNCHANGED <<genres, authors, books, users, book_genre, book_language,
                   next_id, today>>

(* ------------------------------ accessors ------------------------------ *)
\* Truth value of an optional date: None is false, every date is true.
truth(value) == value # NULL

\* The comparison taken the other way round the boundary.
is_overdue_inclusive(self, date_today) ==
    IF truth(self.due_back) /\ date_today >= self.due_back THEN TRUE ELSE FALSE

\* BookInstance.is_overdue
is_overdue(self, date_today) ==
    IF truth(self.due_back) /\ date_today > self.due_back THEN TRUE ELSE FALSE

\* self.genre.all(): the Genre rows attached to the book, in the order of
\* the relation's rows.
RECURSIVE genre_all(_, _)
genre_all(rel, b) ==
    IF rel = <<>> THEN <<>>
    ELSE (IF Head(rel).book = b
          THEN <<Row(genres, Head(rel).genre)>> ELSE <<>>)
         \o genre_all(Tail(rel), b)

\* The queryset without the slice.
slice_all(seq, n) == seq

\* queryset[:n]
slice(seq, n) == SubSeq(seq, 1, IF Len(seq) < n THEN Len(seq) ELSE n)

\* sep.join(strings)
RECURSIVE join(_, _)
join(sep, strings) ==
    IF strings = <<>> THEN ""
    ELSE IF Len(strings) = 1 THEN strings[1]
    ELSE strings[1] \o sep \o join(sep, Tail(strings))

display_genre_limit == 3

\* Book.display_genre
display_genre(self) ==
    join(", ", [k \in 1..Len(slice(genre_all(book_genre, self.id),
                                   display_genre_limit)) |->
                   genre_all(book_genre, self.id)[k].name])

\* BookInstance.__str__: the attribute access on self.book raises when the
\* reference is None.
BookInstance_str(self) ==
    IF self.book = NULL
    THEN [ok |-> FALSE, value |-> "AttributeError"]
    ELSE [ok |-> TRUE,
          value |-> ToString(self.id) \o " (" \o Row(books, self.book).title
                    \o ")"]

(* ------------------------------ orderings ------------------------------ *)
\* Comparison of two texts, character by character.
RECURSIVE text_leq(_, _)
text_leq(s, t) ==
    IF s = <<>> THEN TRUE
    ELSE IF t = <<>> THEN FALSE
    ELSE IF Head(s) # Head(t) THEN Head(s) < Head(t)
    ELSE text_leq(Tail(s), Tail(t))

\* Where the storage engine puts NULL in an ascending ORDER BY.
nulls_first == TRUE

\* Ascending comparison of two optional dates.
date_leq(d, e) ==
    IF d = NULL THEN nulls_first \/ e = NULL
    ELSE IF e = NULL THEN ~nulls_first
    ELSE d <= e

\* No ordering declared: the rows come by primary key.
Author_ordering_pk(r, q) == r.id <= q.id

\* Author.Meta.ordering = ['last_name']
Author_ordering(r, q) == text_leq(r.last_name, q.last_name)

\* ordering = ["-due_back"]
BookInstance_ordering_desc(r, q) == date_leq(q.due_back, r.due_back)

\* BookInstance.Meta.ordering = ["due_back"]
BookInstance_ordering(r, q) == date_leq(r.due_back, q.due_back)

\* The comparison a model's Meta.ordering declares.
Meta_ordering(model, r, q) ==
    IF model = "Author" THEN Author_ordering(r, q)
    ELSE BookInstance_ordering(r, q)

\* SELECT ... ORDER BY: the rows of the table, least first.
order_by(table, ordering) ==
    LET sorted[rest \in SUBSET table] ==
            IF rest = {} THEN <<>>
            ELSE LET first == CHOOSE r \in rest :
                                 \A q \in rest : Meta_ordering(ordering, r, q)
                 IN <<first>> \o sorted[rest \ {first}]
    IN sorted[table]

(* ------------------------------- accessors as requests ----------------- *)
\* The admin list view of BookInstance evaluates a row's is_overdue.
BookInstanceIsOverdue(i) ==
    /\ i \in Ids(bookinstances)
    /\ result' = [op |-> "is_overdue", id |-> i,
                  value |-> is_overdue(Row(bookinstances, i), today)]
    /\ UNCHANGED <<genres, authors, books, bookinstances, users, book_genre,
                   book_language, next_id, today>>

\* A listing or a relationship picker renders a BookInstance as text.
BookInstanceStr(i) ==
    /\ i \in Ids(bookinstances)
    /\ result' = [op |-> "str", id |-> i,
                  value |-> BookInstance_str(Row(bookinstances, i))]
    /\ UNCHANGED <<genres, authors, books, bookinstances, users, book_genre,
                   book_language, next_id, today>>

\* BookAdmin.list_display: the display_genre column of a Book
BookDisplayGenre(b) ==
    /\ b \in Ids(books)
    /\ result' = [op |-> "display_genre", id |-> b,
                  value |-> display_genre(Row(books, b))]
    /\ UNCHANGED <<genres, authors, books, bookinstances, users, book_genre,
                   book_language, next_id, today>>

\* BookInstance.objects.all()
BookInstanceList ==
    /\ result' = [op |-> "BookInstance.list", id |-> NULL,
                  value |-> order_by(bookinstances, "BookInstance")]
    /\ UNCHANGED <<genres, authors, books, bookinstances, users, book_genre,
                   book_language, next_id, today>>

\* Author.objects.all()
AuthorList ==
    /\ result' = [op |-> "Author.list", id |-> NULL,
                  value |-> order_by(authors, "Author")]
    /\ UNCHANGED <<genres, authors, books, bookinstances, users, book_genre,
                   book_language, next_id, today>>

\* The calendar moves on by one day.
Tick ==
    /\ today < MaxDate
    /\ today' = today + 1
    /\ NoResult
    /\ UNCHANGED <<genres, authors, books, bookinstances, users, book_genre,
                   book_language, next_id>>

(* ---------------------------- the catalog ------------------------------ *)
Titles == {"t1", "t2"}
Names == UNION {[1..n -> 1..2] : n \in 1..MaxName}
Dates == 1..MaxDate
UUIDs == 1..MaxUUID
CopyUUIDs == 1..MaxCopy

\* The catalog with one genre on file and nothing else.
Init ==
    /\ genres = {[id |-> 1, name |-> "g1"]}
    /\ authors = {}
    /\ books = {}
    /\ bookinstances = {}
    /\ users = {}
    /\ book_genre = <<>>
    /\ book_language = {}
    /\ next_id = [author |-> 1, book |-> 1, user |-> 1]
    /\ today = 1
    /\ result = None

\* Creations and deletions of authors, books, copies and user accounts.
Next ==
    \/ AuthorAdd(<<1>>, <<1>>)
    \/ \E a \in 1..MaxAuthor : AuthorDelete(a)
    \/ \E a \in 0..MaxAuthor : BookAdd("t1", a, <<1>>, {1})
    \/ \E b \in 1..MaxBook : BookDelete(b)
    \/ UserAdd
    \/ \E u \in 1..MaxUser : UserDelete(u)
    \/ \E b \in 0..MaxBook, u \in 0..MaxUser, k \in CopyUUIDs :
          BookInstanceAdd(NULL, k, b, "imprint", NULL, NOT_PROVIDED, u)
    \/ \E i \in CopyUUIDs : BookInstanceDelete(i)

Spec == Init /\ [][Next]_vars

(* ------------------------- one book on the shelf ----------------------- *)
TheAuthor == [id |-> 1, first_name |-> <<1>>, last_name |-> <<2>>,
              date_of_birth |-> NULL, date_of_death |-> NULL]
TheBook == [id |-> 1, title |-> "t1", author |-> 1, summary |-> "summary",
            isbn |-> "9780000000000"]

\* One author, one book of theirs, no copies yet; no more rows of either
\* table are added.
InitShelf ==
    /\ genres = {[id |-> 1, name |-> "g1"]}
    /\ authors = {TheAuthor}
    /\ books = {TheBook}
    /\ bookinstances = {}
    /\ users = {}
    /\ book_genre = <<[book |-> 1, genre |-> 1]>>
    /\ book_language = {[book |-> 1, language |-> 1]}
    /\ next_id = [author |-> 2, book |-> 2, user |-> 1]
    /\ today = 1
    /\ result = None

StatusInputs == StatusCodes \cup {"", "x", "mm", NOT_PROVIDED}

\* Copies are added, changed and deleted with every status a form can post.
NextStatus ==
    \/ \E id \in {NULL} \cup CopyUUIDs, k \in CopyUUIDs, st \in StatusInputs,
          d \in {NULL} \cup Dates :
          BookInstanceAdd(id, k, 1, "imprint", d, st, NULL)
    \/ \E i \in CopyUUIDs, st \in StatusInputs \ {NOT_PROVIDED},
          d \in {NULL} \cup Dates :
          BookInstanceChange(i, 1, "imprint", d, st, NULL)
    \/ \E i \in CopyUUIDs : BookInstanceDelete(i)

SpecStatus == InitShelf /\ [][NextStatus]_vars

\* Copies with due dates, the calendar, the overdue check and the listing.
NextLoans ==
    \/ \E k \in UUIDs, d \in {NULL} \cup Dates :
          BookInstanceAdd(NULL, k, 1, "imprint", d, NOT_PROVIDED, NULL)
    \/ \E i \in UUIDs, d \in {NULL} \cup Dates :
          BookInstanceChange(i, 1, "imprint", d, "o", NULL)
    \/ \E i \in UUIDs : BookInstanceDelete(i)
    \/ Tick
    \/ \E i \in UUIDs : BookInstanceIsOverdue(i)
    \/ BookInstanceList

SpecLoans == InitShelf /\ [][NextLoans]_vars

(* --------------------------- books and copies -------------------------- *)
\* One author on file.
InitStr ==
    /\ genres = {[id |-> 1, name |-> "g1"]}
    /\ authors = {TheAuthor}
    /\ books = {}
    /\ bookinstances = {}
    /\ users = {}
    /\ book_genre = <<>>
    /\ book_language = {}
    /\ next_id = [author |-> 2, book |-> 1, user |-> 1]
    /\ today = 1
    /\ result = None

NextStr ==
    \/ \E t \in Titles : BookAdd(t, 1, <<1>>, {1})
    \/ \E b \in 1..MaxBook, t \in Titles : BookChange(b, t, 1)
    \/ \E b \in 1..MaxBook : BookDelete(b)
    \/ \E k \in CopyUUIDs, b \in 0..MaxBook :
          BookInstanceAdd(NULL, k, b, "imprint", NULL, NOT_PROVIDED, NULL)
    \/ \E i \in CopyUUIDs, b \in 0..MaxBook :
          BookInstanceChange(i, b, "imprint", NULL, "a", NULL)
    \/ \E i \in CopyUUIDs : BookInstanceDelete(i)
    \/ \E i \in CopyUUIDs : BookInstanceStr(i)

SpecStr == InitStr /\ [][NextStr]_vars

(* ------------------------------- genres -------------------------------- *)
GenreName(g) == "g" \o ToString(g)

\* MaxGenre genres and one author on file.
InitGenre ==
    /\ genres = {[id |-> g, name |-> GenreName(g)] : g \in 1..MaxGenre}
    /\ authors = {TheAuthor}
    /\ books = {}
    /\ bookinstances = {}
    /\ users = {}
    /\ book_genre = <<>>
    /\ book_language = {}
    /\ next_id = [author |-> 2, book |-> 1, user |-> 1]
    /\ today = 1
    /\ result = None

NextGenre ==
    \/ \E gs \in Arrangements(1..MaxGenre, 0, MaxGenre) :
          BookAdd("t1", 1, gs, {1})
    \/ \E g \in 1..MaxGenre : GenreDelete(g)
    \/ \E b \in 1..MaxBook : BookDisplayGenre(b)

SpecGenre == InitGenre /\ [][NextGenre]_vars

(* ------------------------------- authors ------------------------------- *)
InitAuthors ==
    /\ genres = {}
    /\ authors = {}
    /\ books = {}
    /\ bookinstances = {}
    /\ users = {}
    /\ book_genre = <<>>
    /\ book_language = {}
    /\ next_id = [author |-> 1, book |-> 1, user |-> 1]
    /\ today = 1
    /\ result = None

NextAuthors ==
    \/ \E n \in Names : AuthorAdd(<<1>>, n)
    \/ \E a \in 1..MaxAuthor, n \in Names : AuthorChange(a, <<1>>, n)
    \/ \E a \in 1..MaxAuthor : AuthorDelete(a)
    \/ AuthorList

SpecAuthors == InitAuthors /\ [][NextAuthors]_vars

(* ============================== properties ============================= *)
Referencing(table, field, i) == {r \in table : r[field] = i}
GenreSet(rel, b) == {l.genre : l \in {m \in Range(rel) : m.book = b}}
LanguageSet(rel, b) == {l.language : l \in {m \in rel : m.book = b}}
UniqueIds(table) == \A r \in table, q \in table : r.id = q.id => r = q

\* C1 (as stated): the status of every persisted BookInstance is one of the
\* four enumerated codes m, o, a, r.
C1_StatusIsEnumerated ==
    \A r \in bookinstances : r.status \in {"m", "o", "a", "r"}

\* C1 (amended): the status of every BookInstance persisted through a save
\* that passed the field's validation is one of the four enumerated codes or
\* the empty string.
C1_StatusIsEnumeratedOrBlank ==
    \A r \in bookinstances : r.status \in {"m", "o", "a", "r", ""}

C1_Witness ==
    /\ \E r \in bookinstances : r.status = ""
    /\ \E r \in bookinstances : r.status = "r"

\* C2: a step that deletes an Author removes that Author record only; every
\* Book is still persisted, the ones that referenced the Author with author
\* = NULL, and with title, summary, isbn, genre set and language set
\* unchanged; no BookInstance is deleted or changed.
C2_AuthorDeleteKeepsBooks ==
    [][\A a \in Ids(authors) \ Ids(authors') :
          /\ authors' = {r \in authors : r.id # a}
          /\ Ids(books') = Ids(books)
          /\ UniqueIds(books')
          /\ \A b \in books :
                LET after == Row(books', b.id)
                IN /\ after.author = (IF b.author = a THEN NULL ELSE b.author)
                   /\ after.title = b.title
                   /\ after.summary = b.summary
                   /\ after.isbn = b.isbn
                   /\ GenreSet(book_genre', b.id) = GenreSet(book_genre, b.id)
                   /\ LanguageSet(book_language', b.id)
                         = LanguageSet(book_language, b.id)
          /\ bookinstances' = bookinstances]_vars

\* A book lost its author to a deletion (a book is never added without an
\* author) while another book keeps its own.
C2_Witness ==
    /\ \E b \in books : b.author = NULL
    /\ \E b \in books : b.author # NULL

\* C3: a step that deletes a Book removes that Book record only; every
\* BookInstance is still persisted, the ones that referenced the Book with
\* book = NULL, and with id, imprint, due_back, status and borrower
\* unchanged.
C3_BookDeleteKeepsInstances ==
    [][\A b \in Ids(books) \ Ids(books') :
          /\ books' = {r \in books : r.id # b}
          /\ authors' = authors
          /\ users' = users
          /\ Ids(bookinstances') = Ids(bookinstances)
          /\ UniqueIds(bookinstances')
          /\ \A i \in bookinstances :
                LET after == Row(bookinstances', i.id)
                IN /\ after.book = (IF i.book = b THEN NULL ELSE i.book)
                   /\ after.imprint = i.imprint
                   /\ after.due_back = i.due_back
                   /\ after.status = i.status
                   /\ after.borrower = i.borrower]_vars

\* Two copies lost their book to a deletion (a copy is never added without a
\* book), one of them on loan to a user.
C3_Witness ==
    /\ Cardinality(Referencing(bookinstances, "book", NULL)) >= 2
    /\ \E i \in bookinstances : i.book = NULL /\ i.borrower # NULL

\* C4: is_overdue is true if and only if due_back is set and strictly
\* earlier than the current date.
C4_IsOverdue ==
    result.op = "is_overdue" =>
        \A r \in bookinstances :
            r.id = result.id =>
                /\ result.value = (r.due_back # NULL /\ r.due_back < today)
                /\ r.due_back = NULL => result.value = FALSE
                /\ r.due_back = today => result.value = FALSE
                /\ (r.due_back # NULL /\ r.due_back > today)
                      => result.value = FALSE

\* is_overdue answered for a copy due today.
C4_Witness ==
    /\ result.op = "is_overdue"
    /\ \E r \in bookinstances :
          r.id = result.id /\ r.due_back = today /\ result.value = FALSE
    /\ today > 1

NamesOf(rel, b) ==
    LET ls == SelectSeq(rel, LAMBDA l : l.book = b)
    IN [k \in 1..Len(ls) |->
           (CHOOSE g \in genres : g.id = ls[k].genre).name]

\* C5: display_genre returns the names of the first min(n, 3) genres of the
\* book in query order, joined by ", ": the empty string for n = 0, and
\* never a fourth name.
C5_DisplayGenre ==
    result.op = "display_genre" =>
        LET names == NamesOf(book_genre, result.id)
            n == Len(names)
        IN result.value =
              (IF n = 0 THEN ""
               ELSE IF n = 1 THEN names[1]
               ELSE IF n = 2 THEN names[1] \o ", " \o names[2]
               ELSE names[1] \o ", " \o names[2] \o ", " \o names[3])

\* display_genre answered for a book with more than three genres.
C5_Witness ==
    /\ result.op = "display_genre"
    /\ Len(NamesOf(book_genre, result.id)) > 3

\* C6 (as stated): the string representation of every reachable
\* BookInstance is defined and equals "{id} ({book title})".
C6_StrIsDefined ==
    result.op = "str" =>
        /\ result.value.ok
        /\ \A r \in bookinstances, b \in books :
              (r.id = result.id /\ b.id = r.book) =>
                  result.value.value
                     = ToString(r.id) \o " (" \o b.title \o ")"

LexLeq(s, t) ==
    \/ /\ Len(s) <= Len(t)
       /\ \A k \in 1..Len(s) : s[k] = t[k]
    \/ \E k \in 1..Len(s) :
          /\ k <= Len(t)
          /\ s[k] < t[k]
          /\ \A j \in 1..(k - 1) : s[j] = t[j]

\* C8: the Author listing returns all persisted Authors ordered by
\* last_name ascending: of two consecutive records the earlier one's
\* last_name is less than or equal to the later one's.
C8_AuthorListing ==
    result.op = "Author.list" =>
        LET l == result.value
        IN /\ Len(l) = Cardinality(authors)
           /\ Range(l) = authors
           /\ \A k \in 1..(Len(l) - 1) :
                 LexLeq(l[k].last_name, l[k + 1].last_name)

\* A listing of two authors in which the author added last comes first.
C8_Witness ==
    /\ result.op = "Author.list"
    /\ Len(result.value) = 2
    /\ result.value[1].id > result.value[2].id
    /\ result.value[1].last_name # result.value[2].last_name

\* C9: a step that creates a BookInstance without explicit id or status adds
\* one row, whose id differs from the id of every BookInstance that existed
\* and whose status is 'm'; and no two persisted BookInstances share an id.
C9_FreshIdDefaultStatus ==
    [][/\ Cardinality(bookinstances') > Cardinality(bookinstances) =>
             \E r \in bookinstances' :
                 /\ bookinstances' = bookinstances \cup {r}
                 /\ r.id \notin Ids(bookinstances)
                 /\ r.status = "m"
       /\ UniqueIds(bookinstances')]_vars

\* Two copies created with defaults are on file.
C9_Witness ==
    /\ Cardinality(bookinstances) >= 2
    /\ \A r \in bookinstances : r.status = "m"

ReferentialIntegrity ==
    /\ \A b \in books : b.author # NULL => b.author \in Ids(authors)
    /\ \A i \in bookinstances :
          /\ i.book # NULL => i.book \in Ids(books)
          /\ i.borrower # NULL => i.borrower \in Ids(users)

\* C10: every non-null Book.author, BookInstance.book and
\* BookInstance.borrower refers to an existing row; and a step that deletes
\* an Author, a Book or a user removes no Book or BookInstance that
\* referenced it.
C10_ReferentialIntegrity ==
    [][/\ ReferentialIntegrity'
       /\ Ids(authors') # Ids(authors) => Ids(books) \subseteq Ids(books')
       /\ (Ids(books') # Ids(books) \/ Ids(users') # Ids(users))
             => Ids(bookinstances) \subseteq Ids(bookinstances')]_vars

\* An author, a book and a user have been deleted: a book without author
\* and a copy without book are on file next to a copy that has its book,
\* and the user that was created is gone.
C10_Witness ==
    /\ \E b \in books : b.author = NULL
    /\ \E i \in bookinstances : i.book = NULL
    /\ users = {} /\ next_id.user > 1
    /\ \E i \in bookinstances : i.book # NULL

====
